---- MODULE Spec2Model ----
(***************************************************************************)
(* Lorebook permission system.                                             *)
(*                                                                         *)
(* Two programs are modelled:                                              *)
(*   - the browser extension (index.js): permissionData, the slash         *)
(*     commands grant / revoke / check, verifyLorebookAccess and the       *)
(*     asynchronous load and save of the permission data;                  *)
(*   - the server plugin (second half of part_003): the lorebook_acl       *)
(*     settings, checkLorebookPermission and the routes create-symlink,    *)
(*     check-access and grant-access over a small file system.             *)
(***************************************************************************)
EXTENDS Integers, Sequences, FiniteSets, TLC

(***************************************************************************)
(* Bounds                                                                  *)
(***************************************************************************)
\* number of savePermissionData requests that may be in flight at once
MaxInflight == 1

\* concurrent calls of createSymlink for one link path
NumCallers == 3

\* the entries logAccessAttempt keeps (1000 in the source), and the last
\* reading of the clock
LogCap == 2
MaxTime == 4

(***************************************************************************)
(* Values                                                                  *)
(***************************************************************************)
\* getCurrentUser: the id of the user of the browser session
CurrentUser == "current-user"

\* user ids that occur as creators, owners, grant targets and administrators
Users == {"current-user", "alice", "bob"}

\* an absent user id (undefined)
NoUser == "undefined"

\* the user argument of the grant and revoke commands
GrantTargets == {"bob"}

\* an absent character_id, an absent character, an absent permission entry
NoId == "no-id"
NoChar == [name |-> "no-char", cid |-> NoId, creator |-> NoUser, owner |-> NoUser]
NoEntry == [allowedUsers |-> <<>>, owner |-> NoUser, present |-> FALSE]

\* identifiers handed to the commands and to verifyLorebookAccess:
\* array indexes, names, character_ids and an identifier of no character
Ids == {"0", "1", "Aria", "Bex", "c1", "zzz"}

\* keys that permissionData can hold (character_id, else the name)
Keys == {"c1", "Bex"}

\* the settings value extensionSettings.adminUsers; Unset falls back to ['admin']
Unset == {"unset"}
AdminUserChoices == {Unset, {"current-user"}, {"alice"}}

VARIABLES
    characters,            \* context.characters of the host
    adminUsers,            \* extensionSettings.adminUsers
    adminOverrideEnabled,  \* extensionSettings.adminOverrideEnabled
    isAdmin,               \* let isAdmin
    permissionData,        \* let permissionData
    loading,               \* initializePermissionData awaits loadPermissionData
    inflight,              \* savePermissionData requests awaiting their response
    serverPerms,           \* permissions held behind /api/lorebooks/permissions
    localPerms,            \* localStorage item <MODULE_NAME>_permissions
    result,                \* what the last command or check returned
    program,               \* which of the two programs this behaviour is of
    acl,                   \* plugin: extensionSettings['lorebook_acl']
    admins,                \* plugin: the users whose requests carry isAdmin
    links,                 \* plugin: what is at data/users/<user>/worlds/<name>
    userDirs,              \* plugin: the users whose worlds directory exists
    response,              \* plugin: the response to the last request
    world,                 \* client: char.data.extensions.world of the open character
    lastCall,              \* client: the handler that ran last and how its callAPI ended
    aborted,               \* client: whether the interceptor called abort(true)
    accessLogs,            \* localStorage item <MODULE_NAME>_access_logs
    enforcePermissions,    \* extensionSettings.enforcePermissions
    logAccessAttempts,     \* extensionSettings.logAccessAttempts
    now,                   \* the clock read by new Date()
    pc,                    \* createSymlink: the await each call has reached
    seen,                  \* createSymlink: what lstat told each call
    validation,            \* validateSymlink: what the last call returned or threw
    filteredAcl            \* list-acl: the body of the last answer and its requester

extVars == <<characters, adminUsers, adminOverrideEnabled, isAdmin, permissionData,
             loading, inflight, serverPerms, localPerms, result>>

srvVars == <<acl, admins, links, userDirs, response>>

cliVars == <<world, lastCall, aborted>>

logVars == <<accessLogs, enforcePermissions, logAccessAttempts, now>>

raceVars == <<pc, seen>>

valVars == <<validation>>

listVars == <<filteredAcl>>

vars == <<program, extVars, srvVars, cliVars, logVars, raceVars, valVars, listVars>>

\* a step of the extension leaves the plugin alone
ExtFrame ==
    /\ program = "extension"
    /\ UNCHANGED <<program, srvVars, cliVars, logVars, raceVars, valVars, listVars>>

\* a step of the plugin leaves the extension alone
SrvFrame ==
    /\ program = "plugin"
    /\ UNCHANGED <<program, extVars, cliVars, logVars, raceVars, valVars, listVars>>

(***************************************************************************)
(* Helpers of the extension                                                *)
(***************************************************************************)
\* a permission entry as grantPermission creates and extends it
Entry(users, owner) == [allowedUsers |-> users, owner |-> owner, present |-> TRUE]

\* let permissionData = {}
EmptyPerms == [k \in Keys |-> NoEntry]

\* Array.prototype.includes on a list
Includes(list, x) == \E i \in 1..Len(list) : list[i] = x

\* Array.prototype.filter(u => u !== x)
RECURSIVE FilterOut(_, _)
FilterOut(list, x) ==
    IF list = <<>> THEN <<>>
    ELSE IF Head(list) = x THEN FilterOut(Tail(list), x)
         ELSE <<Head(list)>> \o FilterOut(Tail(list), x)

\* verifyAdminStatus: membership in adminUsers, ['admin'] when the setting is absent
verifyAdminStatus(userId) ==
    LET list == IF adminUsers = Unset THEN {"admin"} ELSE adminUsers
    IN userId \in list

\* index of the array element an identifier denotes, 0 when it is no index
IndexOf(id) == IF id = "0" THEN 1 ELSE IF id = "1" THEN 2 ELSE 0

\* Array.prototype.find: the first of the elements at the positions hits (those
\* satisfying the callback), NoChar when there is none
FindChar(hits) ==
    IF hits = {} THEN NoChar
    ELSE characters[CHOOSE i \in hits : \A j \in hits : i <= j]

\* getCharacterById: characters[characterId], else the one with that character_id
getCharacterById(characterId) ==
    IF IndexOf(characterId) \in 1..Len(characters)
    THEN characters[IndexOf(characterId)]
    ELSE FindChar({i \in 1..Len(characters) :
                      characters[i].cid # NoId /\ characters[i].cid = characterId})

\* getCharacterByNameOrId: the first character with that name or character_id
getCharacterByNameOrId(nameOrId) ==
    FindChar({i \in 1..Len(characters) :
                 \/ characters[i].name = nameOrId
                 \/ (characters[i].cid # NoId /\ characters[i].cid = nameOrId)})

\* character.data.extensions?.character_id || characterId
ActualId(character, characterId) ==
    IF character.cid # NoId THEN character.cid ELSE characterId

\* permissionData[characterId] || {}
EntryOf(perms, characterId) ==
    IF characterId \in Keys THEN perms[characterId] ELSE NoEntry

\* isCharacterOwner: data.creator or data.extensions[MODULE_NAME].owner is the user
isCharacterOwner(characterId, userId) ==
    LET character == getCharacterById(characterId)
    IN \/ (character.creator # NoUser /\ character.creator = userId)
       \/ (character.owner # NoUser /\ character.owner = userId)

\* hasExplicitPermission: the user is in allowedUsers of the entry.  The second
\* disjunct of the code reads entry.permissions[userId]; no entry that
\* grantPermission or savePermissionData writes has that field, so it is false.
hasExplicitPermission(characterId, userId) ==
    LET permissions == EntryOf(permissionData, characterId)
    IN Includes(permissions.allowedUsers, userId) \/ FALSE

\* verifyLorebookAccess(data) with data = {characterId, userId}
verifyLorebookAccess(characterId, userId) ==
    LET subject == IF userId # NoUser THEN userId ELSE CurrentUser
    IN IF isAdmin /\ adminOverrideEnabled THEN TRUE
       ELSE IF isCharacterOwner(characterId, subject) THEN TRUE
       ELSE hasExplicitPermission(characterId, subject)

(***************************************************************************)
(* Initial state of the extension: init() has read the settings, computed  *)
(* isAdmin, registered the listeners and commands, and awaits the load.    *)
(***************************************************************************)
\* the characters of the host: one with a character_id, one without
CharacterChoices ==
    {<<[name |-> "Aria", cid |-> "c1", creator |-> "alice", owner |-> NoUser],
       [name |-> "Bex", cid |-> NoId, creator |-> NoUser, owner |-> "current-user"]>>}

\* permissions persisted by earlier sessions
PersistedChoices ==
    {EmptyPerms,
     [EmptyPerms EXCEPT !["c1"] = Entry(<<"current-user">>, "current-user")]}

\* the extension while the behaviour is one of the plugin
ExtIdle ==
    /\ characters = <<>>
    /\ adminUsers = Unset
    /\ adminOverrideEnabled = TRUE
    /\ isAdmin = FALSE
    /\ permissionData = EmptyPerms
    /\ loading = FALSE
    /\ inflight = <<>>
    /\ serverPerms = EmptyPerms
    /\ localPerms = EmptyPerms
    /\ result = "none"

ExtInit ==
    /\ characters \in CharacterChoices
    /\ adminUsers \in AdminUserChoices
    /\ adminOverrideEnabled \in BOOLEAN
    /\ isAdmin = verifyAdminStatus(CurrentUser)
    /\ permissionData = EmptyPerms
    /\ loading = TRUE
    /\ inflight = <<>>
    /\ serverPerms \in PersistedChoices
    /\ localPerms = serverPerms
    /\ result = "none"

(***************************************************************************)
(* Operations of the extension                                             *)
(***************************************************************************)
\* savePermissionData up to its await: the request carries the data as it is now
SaveStarted(perms) == Append(inflight, perms)

\* grantPermission without the test of isAdmin
grantPermissionNoAdminCheck(userId, characterId) ==
    LET character == getCharacterByNameOrId(characterId)
        actualId == ActualId(character, characterId)
        entry == IF permissionData[actualId].present THEN permissionData[actualId]
                 ELSE Entry(<<>>, CurrentUser)
    IN IF character = NoChar
       THEN /\ result' = "not-found"
            /\ UNCHANGED <<permissionData, inflight>>
       ELSE IF ~Includes(entry.allowedUsers, userId)
       THEN /\ Len(inflight) < MaxInflight
            /\ permissionData' = [permissionData EXCEPT ![actualId] =
                   [entry EXCEPT !.allowedUsers = Append(@, userId)]]
            /\ inflight' = SaveStarted(permissionData')
            /\ result' = "granted"
       ELSE /\ permissionData' = [permissionData EXCEPT ![actualId] = entry]
            /\ result' = "already-granted"
            /\ UNCHANGED inflight

\* grantPermission that pushes the user without looking for it in the list
grantPermissionAlwaysPush(userId, characterId) ==
    LET character == getCharacterByNameOrId(characterId)
        actualId == ActualId(character, characterId)
        entry == IF permissionData[actualId].present THEN permissionData[actualId]
                 ELSE Entry(<<>>, CurrentUser)
    IN IF ~isAdmin
       THEN /\ result' = "admin-required"
            /\ UNCHANGED <<permissionData, inflight>>
       ELSE IF character = NoChar
       THEN /\ result' = "not-found"
            /\ UNCHANGED <<permissionData, inflight>>
       ELSE /\ Len(inflight) < MaxInflight
            /\ Len(entry.allowedUsers) < 3
            /\ permissionData' = [permissionData EXCEPT ![actualId] =
                   [entry EXCEPT !.allowedUsers = Append(@, userId)]]
            /\ inflight' = SaveStarted(permissionData')
            /\ result' = "granted"

\* grantPermission whose new record lists its owner
grantPermissionOwnerListed(userId, characterId) ==
    LET character == getCharacterByNameOrId(characterId)
        actualId == ActualId(character, characterId)
        entry == IF permissionData[actualId].present THEN permissionData[actualId]
                 ELSE Entry(<<CurrentUser>>, CurrentUser)
    IN IF ~isAdmin
       THEN /\ result' = "admin-required"
            /\ UNCHANGED <<permissionData, inflight>>
       ELSE IF character = NoChar
       THEN /\ result' = "not-found"
            /\ UNCHANGED <<permissionData, inflight>>
       ELSE IF ~Includes(entry.allowedUsers, userId)
       THEN /\ Len(inflight) < MaxInflight
            /\ permissionData' = [permissionData EXCEPT ![actualId] =
                   [entry EXCEPT !.allowedUsers = Append(@, userId)]]
            /\ inflight' = SaveStarted(permissionData')
            /\ result' = "granted"
       ELSE /\ permissionData' = [permissionData EXCEPT ![actualId] = entry]
            /\ result' = "already-granted"
            /\ UNCHANGED inflight

\* grantPermission(userId, characterId)
grantPermission(userId, characterId) ==
    LET character == getCharacterByNameOrId(characterId)
        actualId == ActualId(character, characterId)
        entry == IF permissionData[actualId].present THEN permissionData[actualId]
                 ELSE Entry(<<>>, CurrentUser)
    IN IF ~isAdmin
       THEN /\ result' = "admin-required"
            /\ UNCHANGED <<permissionData, inflight>>
       ELSE IF character = NoChar
       THEN /\ result' = "not-found"
            /\ UNCHANGED <<permissionData, inflight>>
       ELSE IF ~Includes(entry.allowedUsers, userId)
       THEN /\ Len(inflight) < MaxInflight
            /\ permissionData' = [permissionData EXCEPT ![actualId] =
                   [entry EXCEPT !.allowedUsers = Append(@, userId)]]
            /\ inflight' = SaveStarted(permissionData')
            /\ result' = "granted"
       ELSE /\ permissionData' = [permissionData EXCEPT ![actualId] = entry]
            /\ result' = "already-granted"
            /\ UNCHANGED inflight

\* revokePermission(userId, characterId)
revokePermission(userId, characterId) ==
    LET character == getCharacterByNameOrId(characterId)
        actualId == ActualId(character, characterId)
    IN IF ~isAdmin
       THEN /\ result' = "admin-required"
            /\ UNCHANGED <<permissionData, inflight>>
       ELSE IF character = NoChar
       THEN /\ result' = "not-found"
            /\ UNCHANGED <<permissionData, inflight>>
       ELSE IF Includes(permissionData[actualId].allowedUsers, userId)
       THEN /\ Len(inflight) < MaxInflight
            /\ permissionData' = [permissionData EXCEPT ![actualId].allowedUsers =
                   FilterOut(@, userId)]
            /\ inflight' = SaveStarted(permissionData')
            /\ result' = "revoked"
       ELSE /\ result' = "not-granted"
            /\ UNCHANGED <<permissionData, inflight>>

\* checkPermission(characterId): the slash command 'check'
checkPermission(characterId) ==
    LET character == getCharacterByNameOrId(characterId)
        actualId == ActualId(character, characterId)
    IN IF character = NoChar THEN "not-found"
       ELSE IF verifyLorebookAccess(actualId, CurrentUser) THEN "allowed"
       ELSE "denied"

\* the records that the text returned by listPermissions shows, each with its
\* owner and its allowed users
Listing == {<<k, permissionData[k].owner, permissionData[k].allowedUsers>> :
               k \in {key \in Keys : permissionData[key].present}}

\* listPermissions without the test of isAdmin
listPermissionsNoAdminCheck == "listed"

\* listPermissions(): the refusal, or the text that shows Listing
listPermissions == IF ~isAdmin THEN "admin-required" ELSE "listed"

\* the slash command 'grant' run with its two arguments
GrantCall(u, id) ==
    /\ program = "extension"
    /\ grantPermission(u, id)
    /\ UNCHANGED <<characters, adminUsers, adminOverrideEnabled, isAdmin,
                   loading, serverPerms, localPerms>>
    /\ UNCHANGED <<program, srvVars, cliVars, logVars, raceVars, valVars, listVars>>

\* the slash command 'revoke' run with its two arguments
RevokeCall(u, id) ==
    /\ program = "extension"
    /\ revokePermission(u, id)
    /\ UNCHANGED <<characters, adminUsers, adminOverrideEnabled, isAdmin,
                   loading, serverPerms, localPerms>>
    /\ UNCHANGED <<program, srvVars, cliVars, logVars, raceVars, valVars, listVars>>

GrantCmd == \E u \in GrantTargets, id \in Ids : GrantCall(u, id)

RevokeCmd == \E u \in GrantTargets, id \in Ids : RevokeCall(u, id)

\* verifyLorebookAccess called with event data or through the global
\* LorebookPermissionSystem object, for the canonical id of a character
VerifyCall ==
    \E id \in Ids, u \in Users \cup {NoUser} :
        /\ ExtFrame
        /\ result' = IF verifyLorebookAccess(id, u) THEN "verify-allowed"
                      ELSE "verify-denied"
        /\ UNCHANGED <<characters, adminUsers, adminOverrideEnabled, isAdmin,
                       permissionData, loading, inflight, serverPerms, localPerms>>

\* the slash command 'list'
ListCmd ==
    /\ ExtFrame
    /\ result' = listPermissions
    /\ UNCHANGED <<characters, adminUsers, adminOverrideEnabled, isAdmin,
                   permissionData, loading, inflight, serverPerms, localPerms>>

CheckCmd ==
    \E id \in Ids :
        /\ ExtFrame
        /\ result' = checkPermission(id)
        /\ UNCHANGED <<characters, adminUsers, adminOverrideEnabled, isAdmin,
                       permissionData, loading, inflight, serverPerms, localPerms>>

\* loadPermissionData answered by the server: data.permissions replaces permissionData
LoadFromServer ==
    /\ ExtFrame
    /\ loading
    /\ permissionData' = serverPerms
    /\ loading' = FALSE
    /\ UNCHANGED <<characters, adminUsers, adminOverrideEnabled, isAdmin,
                   inflight, serverPerms, localPerms, result>>

\* loadPermissionData when the request fails: the localStorage copy is used
LoadFromCache ==
    /\ ExtFrame
    /\ loading
    /\ permissionData' = localPerms
    /\ loading' = FALSE
    /\ UNCHANGED <<characters, adminUsers, adminOverrideEnabled, isAdmin,
                   inflight, serverPerms, localPerms, result>>

\* savePermissionData after its await: the server stored the request's data
\* (ok) or did not (failure); localStorage gets permissionData as it is now
SaveDone ==
    \E ok \in BOOLEAN :
        /\ ExtFrame
        /\ inflight # <<>>
        /\ serverPerms' = IF ok THEN Head(inflight) ELSE serverPerms
        /\ localPerms' = permissionData
        /\ inflight' = Tail(inflight)
        /\ UNCHANGED <<characters, adminUsers, adminOverrideEnabled, isAdmin,
                       permissionData, loading, result>>

\* the host changes the adminOverrideEnabled setting
SettingsUpdated ==
    /\ ExtFrame
    /\ adminOverrideEnabled' = ~adminOverrideEnabled
    /\ UNCHANGED <<characters, adminUsers, isAdmin, permissionData, loading,
                   inflight, serverPerms, localPerms, result>>

(***************************************************************************)
(* The server plugin                                                       *)
(***************************************************************************)
\* handles of the users that send requests
SrvUsers == {"root", "alice", "bob"}

\* req.user?.handle || 'default-user'
DefaultUser == "default-user"

\* the users to whom access is granted, and the user for whom links are created
TargetUsers == {"alice", "bob"}
LinkUsers == {"bob"}

\* names of links, which are the keys of the ACL
LinkNames == {"R1", "R2"}

\* a lorebook name that is never registered
UnknownName == "R9"

\* a field missing from the request body
Missing == ""

\* file names asked for as targetLorebook
TargetLorebooks == {"lore.json", "gone.json", "../secret.json"}

\* the segments of a file name, as path.join splits it at the separators
Segments(name) ==
    IF name = "../secret.json" THEN <<"..", "secret.json">> ELSE <<name>>

\* path.join(base, name): the segments are appended and normalised, a ".."
\* removing the segment before it
RECURSIVE PathJoin(_, _)
PathJoin(base, segs) ==
    IF segs = <<>> THEN base
    ELSE IF Head(segs) = ".."
         THEN PathJoin(IF base = <<>> THEN <<>> ELSE SubSeq(base, 1, Len(base) - 1),
                       Tail(segs))
         ELSE PathJoin(Append(base, Head(segs)), Tail(segs))

\* path.join(getDataRoot(), 'shared', 'worlds')
SharedWorldsDir == <<"data", "shared", "worlds">>

\* a path lies inside the directory dir
Inside(dir, path) ==
    Len(path) > Len(dir) /\ SubSeq(path, 1, Len(dir)) = dir

\* path.join(getDataRoot(), 'shared', 'worlds', targetLorebook)
SharedLorebook(targetLorebook) == PathJoin(SharedWorldsDir, Segments(targetLorebook))

\* the files of the data root other than the users' links
DataFiles ==
    {<<"data", "shared", "worlds", "lore.json">>, <<"data", "shared", "secret.json">>}

\* the names for which fs.access(sharedLorebook) succeeds
SharedFiles == {t \in TargetLorebooks : SharedLorebook(t) \in DataFiles}

\* outcomes of the file system calls of one create-symlink request
FsOutcomes ==
    {"ok", "mkdir-fails", "lstat-fails", "unlink-fails", "symlink-fails", "symlink-eperm"}

\* settings['lorebook_acl'][name] when it is undefined
NoAcl == [creator |-> NoUser, allowedUsers |-> <<>>, present |-> FALSE]

\* no error member in the body of a response
NoError == "none"

\* the messages of the error replies
MissingFields == "Missing required fields"
OnlyAdmins == "Only admins can create symlinks"
SourceNotFound == "Source lorebook not found"
NotInAcl == "Lorebook not found in ACL"
PermissionDenied == "Permission denied"
EpermMessage == "Permission denied. Windows requires admin rights or Developer Mode for symlinks."

\* a response: its route and status, and of its body the members permitted, acl
\* (null is NoAcl) and error
NoResponse == [route |-> "none", status |-> 0, permitted |-> FALSE,
               acl |-> NoAcl, error |-> NoError]

\* settings['lorebook_acl'][lorebookName]
AclOf(lorebookName) ==
    IF lorebookName \in LinkNames THEN acl[lorebookName] ELSE NoAcl

\* req.user?.handle || 'default-user'
UserHandle(requester) == IF requester = NoUser THEN DefaultUser ELSE requester

\* req.user?.isAdmin || false
IsAdminReq(requester) == requester \in admins

\* checkLorebookPermission(lorebookName, userHandle, isAdmin)
checkLorebookPermission(lorebookName, userHandle, isAdminArg) ==
    LET entry == AclOf(lorebookName)
    IN IF ~entry.present THEN TRUE
       ELSE IF isAdminArg THEN TRUE
       ELSE IF entry.creator = userHandle THEN TRUE
       ELSE Includes(entry.allowedUsers, userHandle)

\* createSymlink(target, linkPath): lstat, unlink of an existing symlink, symlink.
\* Yields the directory entries afterwards and whether it returned or threw.
createSymlink(target, user, name, fsOut) ==
    LET cur == links[user, name]
        isLink == cur \in TargetLorebooks
        afterUnlink == IF isLink THEN [links EXCEPT ![user, name] = "none"] ELSE links
    IN IF fsOut = "lstat-fails"
       THEN [links |-> links, ok |-> FALSE, error |-> "lstat-fails"]
       ELSE IF isLink /\ fsOut = "unlink-fails"
       THEN [links |-> links, ok |-> FALSE, error |-> "unlink-fails"]
       ELSE IF fsOut = "symlink-eperm"
       THEN [links |-> afterUnlink, ok |-> FALSE, error |-> EpermMessage]
       ELSE IF fsOut = "symlink-fails" \/ afterUnlink[user, name] # "none"
       THEN [links |-> afterUnlink, ok |-> FALSE, error |-> "symlink-fails"]
       ELSE [links |-> [afterUnlink EXCEPT ![user, name] = target], ok |-> TRUE,
             error |-> NoError]

\* create-symlink without the test that the requester is an administrator
createSymlinkRouteNoAdminCheck(requester, targetLorebook, linkName, targetUser, fsOut) ==
    LET made == createSymlink(targetLorebook, targetUser, linkName, fsOut)
        reply(status, error) == [route |-> "create-symlink", status |-> status,
                                 permitted |-> FALSE, acl |-> NoAcl, error |-> error]
    IN IF targetLorebook = Missing \/ linkName = Missing \/ targetUser = Missing
       THEN /\ response' = reply(400, MissingFields)
            /\ UNCHANGED <<acl, links, userDirs>>
       ELSE IF targetLorebook \notin SharedFiles
       THEN /\ response' = reply(404, SourceNotFound)
            /\ UNCHANGED <<acl, links, userDirs>>
       ELSE IF fsOut = "mkdir-fails"
       THEN /\ response' = reply(500, "mkdir-fails")
            /\ UNCHANGED <<acl, links, userDirs>>
       ELSE IF ~made.ok
       THEN /\ response' = reply(500, made.error)
            /\ userDirs' = userDirs \cup {targetUser}
            /\ links' = made.links
            /\ UNCHANGED acl
       ELSE /\ response' = reply(200, NoError)
            /\ userDirs' = userDirs \cup {targetUser}
            /\ links' = made.links
            /\ acl' = [acl EXCEPT ![linkName] =
                   [creator |-> UserHandle(requester),
                    allowedUsers |-> <<targetUser>>, present |-> TRUE]]

\* create-symlink whose catch block answers as if the link had been made
createSymlinkRouteSwallowsFailure(requester, targetLorebook, linkName, targetUser, fsOut) ==
    LET made == createSymlink(targetLorebook, targetUser, linkName, fsOut)
        reply(status, error) == [route |-> "create-symlink", status |-> status,
                                 permitted |-> FALSE, acl |-> NoAcl, error |-> error]
    IN IF targetLorebook = Missing \/ linkName = Missing \/ targetUser = Missing
       THEN /\ response' = reply(400, MissingFields)
            /\ UNCHANGED <<acl, links, userDirs>>
       ELSE IF ~IsAdminReq(requester)
       THEN /\ response' = reply(403, OnlyAdmins)
            /\ UNCHANGED <<acl, links, userDirs>>
       ELSE IF targetLorebook \notin SharedFiles
       THEN /\ response' = reply(404, SourceNotFound)
            /\ UNCHANGED <<acl, links, userDirs>>
       ELSE IF fsOut = "mkdir-fails"
       THEN /\ response' = reply(200, NoError)
            /\ UNCHANGED <<acl, links, userDirs>>
       ELSE IF ~made.ok
       THEN /\ response' = reply(200, NoError)
            /\ userDirs' = userDirs \cup {targetUser}
            /\ links' = made.links
            /\ UNCHANGED acl
       ELSE /\ response' = reply(200, NoError)
            /\ userDirs' = userDirs \cup {targetUser}
            /\ links' = made.links
            /\ acl' = [acl EXCEPT ![linkName] =
                   [creator |-> UserHandle(requester),
                    allowedUsers |-> <<targetUser>>, present |-> TRUE]]

\* create-symlink that adds the target user to the allow-list of an earlier
\* entry instead of replacing the entry
createSymlinkRouteKeepsAllowed(requester, targetLorebook, linkName, targetUser, fsOut) ==
    LET made == createSymlink(targetLorebook, targetUser, linkName, fsOut)
        reply(status, error) == [route |-> "create-symlink", status |-> status,
                                 permitted |-> FALSE, acl |-> NoAcl, error |-> error]
    IN IF targetLorebook = Missing \/ linkName = Missing \/ targetUser = Missing
       THEN /\ response' = reply(400, MissingFields)
            /\ UNCHANGED <<acl, links, userDirs>>
       ELSE IF ~IsAdminReq(requester)
       THEN /\ response' = reply(403, OnlyAdmins)
            /\ UNCHANGED <<acl, links, userDirs>>
       ELSE IF targetLorebook \notin SharedFiles
       THEN /\ response' = reply(404, SourceNotFound)
            /\ UNCHANGED <<acl, links, userDirs>>
       ELSE IF fsOut = "mkdir-fails"
       THEN /\ response' = reply(500, "mkdir-fails")
            /\ UNCHANGED <<acl, links, userDirs>>
       ELSE IF ~made.ok
       THEN /\ response' = reply(500, made.error)
            /\ userDirs' = userDirs \cup {targetUser}
            /\ links' = made.links
            /\ UNCHANGED acl
       ELSE /\ response' = reply(200, NoError)
            /\ userDirs' = userDirs \cup {targetUser}
            /\ links' = made.links
            /\ acl' = [acl EXCEPT ![linkName] =
                   [creator |-> UserHandle(requester),
                    allowedUsers |->
                        IF Includes(acl[linkName].allowedUsers, targetUser)
                        THEN acl[linkName].allowedUsers
                        ELSE Append(acl[linkName].allowedUsers, targetUser),
                    present |-> TRUE]]

\* create-symlink that registers the ACL entry before it creates the link
createSymlinkRouteRegistersFirst(requester, targetLorebook, linkName, targetUser, fsOut) ==
    LET made == createSymlink(targetLorebook, targetUser, linkName, fsOut)
        reply(status, error) == [route |-> "create-symlink", status |-> status,
                                 permitted |-> FALSE, acl |-> NoAcl, error |-> error]
    IN IF targetLorebook = Missing \/ linkName = Missing \/ targetUser = Missing
       THEN /\ response' = reply(400, MissingFields)
            /\ UNCHANGED <<acl, links, userDirs>>
       ELSE IF ~IsAdminReq(requester)
       THEN /\ response' = reply(403, OnlyAdmins)
            /\ UNCHANGED <<acl, links, userDirs>>
       ELSE IF targetLorebook \notin SharedFiles
       THEN /\ response' = reply(404, SourceNotFound)
            /\ UNCHANGED <<acl, links, userDirs>>
       ELSE IF fsOut = "mkdir-fails"
       THEN /\ response' = reply(500, "mkdir-fails")
            /\ UNCHANGED <<acl, links, userDirs>>
       ELSE IF ~made.ok
       THEN /\ response' = reply(500, made.error)
            /\ userDirs' = userDirs \cup {targetUser}
            /\ links' = made.links
            /\ acl' = [acl EXCEPT ![linkName] =
                   [creator |-> UserHandle(requester),
                    allowedUsers |-> <<targetUser>>, present |-> TRUE]]
       ELSE /\ response' = reply(200, NoError)
            /\ userDirs' = userDirs \cup {targetUser}
            /\ links' = made.links
            /\ acl' = [acl EXCEPT ![linkName] =
                   [creator |-> UserHandle(requester),
                    allowedUsers |-> <<targetUser>>, present |-> TRUE]]

\* router.post('/create-symlink')
createSymlinkRoute(requester, targetLorebook, linkName, targetUser, fsOut) ==
    LET made == createSymlink(targetLorebook, targetUser, linkName, fsOut)
        reply(status, error) == [route |-> "create-symlink", status |-> status,
                                 permitted |-> FALSE, acl |-> NoAcl, error |-> error]
    IN IF targetLorebook = Missing \/ linkName = Missing \/ targetUser = Missing
       THEN /\ response' = reply(400, MissingFields)
            /\ UNCHANGED <<acl, links, userDirs>>
       ELSE IF ~IsAdminReq(requester)
       THEN /\ response' = reply(403, OnlyAdmins)
            /\ UNCHANGED <<acl, links, userDirs>>
       ELSE IF targetLorebook \notin SharedFiles
       THEN /\ response' = reply(404, SourceNotFound)
            /\ UNCHANGED <<acl, links, userDirs>>
       ELSE IF fsOut = "mkdir-fails"
       THEN /\ response' = reply(500, "mkdir-fails")
            /\ UNCHANGED <<acl, links, userDirs>>
       ELSE IF ~made.ok
       THEN /\ response' = reply(500, made.error)
            /\ userDirs' = userDirs \cup {targetUser}
            /\ links' = made.links
            /\ UNCHANGED acl
       ELSE /\ response' = reply(200, NoError)
            /\ userDirs' = userDirs \cup {targetUser}
            /\ links' = made.links
            /\ acl' = [acl EXCEPT ![linkName] =
                   [creator |-> UserHandle(requester),
                    allowedUsers |-> <<targetUser>>, present |-> TRUE]]

\* check-access that puts the requester it denies on the allow-list
checkAccessRouteAddsRequester(requester, lorebookName) ==
    LET permitted == checkLorebookPermission(lorebookName, UserHandle(requester),
                                             IsAdminReq(requester))
    IN /\ response' = [route |-> "check-access", status |-> 200,
                       permitted |-> permitted,
                       acl |-> AclOf(lorebookName), error |-> NoError]
       /\ acl' = IF permitted THEN acl
                 ELSE [acl EXCEPT ![lorebookName].allowedUsers =
                           Append(@, UserHandle(requester))]
       /\ UNCHANGED <<links, userDirs>>

\* router.post('/check-access')
checkAccessRoute(requester, lorebookName) ==
    /\ response' = [route |-> "check-access", status |-> 200,
                    permitted |-> checkLorebookPermission(lorebookName,
                                      UserHandle(requester), IsAdminReq(requester)),
                    acl |-> AclOf(lorebookName), error |-> NoError]
    /\ UNCHANGED <<acl, links, userDirs>>

\* grant-access that also lets the users of the allow-list grant
grantAccessRouteByMember(requester, lorebookName, targetUser) ==
    LET entry == AclOf(lorebookName)
        reply(status, error) == [route |-> "grant-access", status |-> status,
                                 permitted |-> FALSE, acl |-> NoAcl, error |-> error]
    IN IF ~entry.present
       THEN /\ response' = reply(404, NotInAcl)
            /\ UNCHANGED <<acl, links, userDirs>>
       ELSE IF /\ ~IsAdminReq(requester)
               /\ entry.creator # UserHandle(requester)
               /\ ~Includes(entry.allowedUsers, UserHandle(requester))
       THEN /\ response' = reply(403, PermissionDenied)
            /\ UNCHANGED <<acl, links, userDirs>>
       ELSE /\ acl' = IF ~Includes(entry.allowedUsers, targetUser)
                      THEN [acl EXCEPT ![lorebookName].allowedUsers =
                                Append(@, targetUser)]
                      ELSE acl
            /\ response' = [reply(200, NoError) EXCEPT !.acl = acl'[lorebookName]]
            /\ UNCHANGED <<links, userDirs>>

\* router.post('/grant-access')
grantAccessRoute(requester, lorebookName, targetUser) ==
    LET entry == AclOf(lorebookName)
        reply(status, error) == [route |-> "grant-access", status |-> status,
                                 permitted |-> FALSE, acl |-> NoAcl, error |-> error]
    IN IF ~entry.present
       THEN /\ response' = reply(404, NotInAcl)
            /\ UNCHANGED <<acl, links, userDirs>>
       ELSE IF ~IsAdminReq(requester) /\ entry.creator # UserHandle(requester)
       THEN /\ response' = reply(403, PermissionDenied)
            /\ UNCHANGED <<acl, links, userDirs>>
       ELSE /\ acl' = IF ~Includes(entry.allowedUsers, targetUser)
                      THEN [acl EXCEPT ![lorebookName].allowedUsers =
                                Append(@, targetUser)]
                      ELSE acl
            /\ response' = [reply(200, NoError) EXCEPT !.acl = acl'[lorebookName]]
            /\ UNCHANGED <<links, userDirs>>

\* the body of no answer of list-acl
NoListing == [asked |-> FALSE, to |-> NoUser, acl |-> [n \in LinkNames |-> NoAcl]]

\* list-acl that returns every entry to every requester
listAclRouteUnfiltered(requester) ==
    /\ filteredAcl' = [asked |-> TRUE, to |-> requester, acl |-> acl]
    /\ response' = [route |-> "list-acl", status |-> 200, permitted |-> FALSE,
                    acl |-> NoAcl, error |-> NoError]
    /\ UNCHANGED <<acl, links, userDirs>>

\* router.get('/list-acl'): the entries of settings['lorebook_acl'] that pass
\* the filter; a name that is not a key of the answer maps to NoAcl
listAclRoute(requester) ==
    LET userHandle == UserHandle(requester)
        isAdminReq == IsAdminReq(requester)
        passes(entry) == \/ isAdminReq
                         \/ entry.creator = userHandle
                         \/ Includes(entry.allowedUsers, userHandle)
    IN /\ filteredAcl' =
              [asked |-> TRUE, to |-> requester,
               acl |-> [n \in LinkNames |->
                           IF acl[n].present /\ passes(acl[n]) THEN acl[n]
                           ELSE NoAcl]]
       /\ response' = [route |-> "list-acl", status |-> 200, permitted |-> FALSE,
                       acl |-> NoAcl, error |-> NoError]
       /\ UNCHANGED <<acl, links, userDirs>>

\* the create-symlink request passes the checks made before the first write
ReachesFs(requester, targetLorebook, linkName, targetUser) ==
    /\ targetLorebook # Missing /\ linkName # Missing /\ targetUser # Missing
    /\ IsAdminReq(requester)
    /\ targetLorebook \in SharedFiles

\* request bodies of create-symlink: complete ones, and one per missing field
CreateBodies ==
    [targetLorebook : TargetLorebooks, linkName : LinkNames, targetUser : LinkUsers]
    \cup {[targetLorebook |-> Missing, linkName |-> "R1", targetUser |-> "bob"],
          [targetLorebook |-> "lore.json", linkName |-> Missing, targetUser |-> "bob"],
          [targetLorebook |-> "lore.json", linkName |-> "R1", targetUser |-> Missing]}

\* one POST /create-symlink
CreateSymlinkCall(requester, body, fsOut) ==
    /\ program = "plugin"
    /\ createSymlinkRoute(requester, body.targetLorebook, body.linkName,
                          body.targetUser, fsOut)
    /\ UNCHANGED admins
    /\ UNCHANGED <<program, extVars, cliVars, logVars, raceVars, valVars, listVars>>

\* one POST /grant-access
GrantAccessCall(requester, lorebookName, targetUser) ==
    /\ program = "plugin"
    /\ grantAccessRoute(requester, lorebookName, targetUser)
    /\ UNCHANGED admins
    /\ UNCHANGED <<program, extVars, cliVars, logVars, raceVars, valVars, listVars>>

CreateSymlinkReq ==
    \E requester \in SrvUsers \cup {NoUser}, body \in CreateBodies :
        \E fsOut \in IF ReachesFs(requester, body.targetLorebook, body.linkName,
                                   body.targetUser)
                      THEN FsOutcomes ELSE {"ok"} :
            CreateSymlinkCall(requester, body, fsOut)

CheckAccessReq ==
    \E requester \in SrvUsers \cup {NoUser}, lorebookName \in LinkNames \cup {UnknownName} :
        /\ SrvFrame
        /\ checkAccessRoute(requester, lorebookName)
        /\ UNCHANGED admins

GrantAccessReq ==
    \E requester \in SrvUsers \cup {NoUser}, lorebookName \in LinkNames \cup {UnknownName},
       targetUser \in TargetUsers :
        GrantAccessCall(requester, lorebookName, targetUser)

\* one GET /list-acl
ListAclCall(requester) ==
    /\ program = "plugin"
    /\ listAclRoute(requester)
    /\ UNCHANGED admins
    /\ UNCHANGED <<program, extVars, cliVars, logVars, raceVars, valVars>>

ListAclReq == \E requester \in SrvUsers \cup {NoUser} : ListAclCall(requester)

\* the host gives alice the administrator role or takes it away
HostSetsAdmins ==
    /\ SrvFrame
    /\ admins' = IF "alice" \in admins THEN admins \ {"alice"}
                 ELSE admins \cup {"alice"}
    /\ UNCHANGED <<acl, links, userDirs, response>>

\* the plugin after init(): no ACL entry; bob may hold a world file named R2
SrvInit ==
    /\ acl = [n \in LinkNames |-> NoAcl]
    /\ admins = {"root"}
    /\ \E own \in {"none", "file"} :
         links = [p \in TargetUsers \X LinkNames |->
                     IF p = <<"bob", "R2">> THEN own ELSE "none"]
    /\ userDirs = IF links["bob", "R2"] = "file" THEN {"bob"} ELSE {}
    /\ response = NoResponse

\* the plugin while the behaviour is one of the extension
SrvIdle ==
    /\ acl = [n \in LinkNames |-> NoAcl]
    /\ admins = {"root"}
    /\ links = [p \in TargetUsers \X LinkNames |-> "none"]
    /\ userDirs = {}
    /\ response = NoResponse

(***************************************************************************)
(* Specification                                                           *)
(***************************************************************************)
\* the client script before a character with a lorebook is opened
NoWorld == "null"
NoCall == [handler |-> "none", outcome |-> "none"]
CliIdle == world = NoWorld /\ lastCall = NoCall /\ aborted = FALSE

\* no access attempt logged yet, both settings at their defaults
LogIdle ==
    /\ accessLogs = <<>>
    /\ enforcePermissions = TRUE
    /\ logAccessAttempts = TRUE
    /\ now = 0

\* no createSymlink call in progress
Callers == 1 .. NumCallers
RaceIdle ==
    /\ pc = [c \in Callers |-> "idle"]
    /\ seen = [c \in Callers |-> "none"]

\* validateSymlink has not been called
NoTarget == <<>>
NoValidation == [by |-> "none", user |-> "none", name |-> "none", thrown |-> FALSE,
                 valid |-> FALSE, reason |-> "none", target |-> NoTarget]
ValIdle == validation = NoValidation

\* no list-acl request has been answered
ListIdle == filteredAcl = NoListing

Rest == CliIdle /\ LogIdle /\ RaceIdle /\ ValIdle /\ ListIdle

Init ==
    \/ program = "extension" /\ ExtInit /\ SrvIdle /\ Rest
    \/ program = "plugin" /\ ExtIdle /\ SrvInit /\ Rest

Next ==
    \/ GrantCmd
    \/ RevokeCmd
    \/ ListCmd
    \/ CheckCmd
    \/ VerifyCall
    \/ LoadFromServer
    \/ LoadFromCache
    \/ SaveDone
    \/ SettingsUpdated
    \/ CreateSymlinkReq
    \/ CheckAccessReq
    \/ GrantAccessReq
    \/ HostSetsAdmins

Spec == Init /\ [][Next]_vars

(***************************************************************************)
(* The plugin alone, with links made for either user under one name        *)
(***************************************************************************)
\* request bodies of create-symlink that share lore.json as R1 with a user
ShareBodies ==
    [targetLorebook : {"lore.json"}, linkName : {"R1"}, targetUser : TargetUsers]

ShareSymlinkReq ==
    \E requester \in SrvUsers, body \in ShareBodies :
        \E fsOut \in IF ReachesFs(requester, body.targetLorebook, body.linkName,
                                   body.targetUser)
                      THEN FsOutcomes ELSE {"ok"} :
            CreateSymlinkCall(requester, body, fsOut)

InitLinks == program = "plugin" /\ ExtIdle /\ SrvInit /\ Rest

NextLinks ==
    \/ ShareSymlinkReq
    \/ CheckAccessReq
    \/ GrantAccessReq
    \/ HostSetsAdmins

SpecLinks == InitLinks /\ [][NextLinks]_vars

(***************************************************************************)
(* The client script of the plugin, with the plugin it calls               *)
(***************************************************************************)
\* how a callAPI('/check-access') ends: with the plugin's answer, or thrown
ApiOutcomes == {"answered", "thrown"}

\* callAPI('/check-access', { lorebookName }, 'POST') made for requester
callAPI(requester, lorebookName, apiOut) ==
    IF apiOut = "answered"
    THEN checkAccessRoute(requester, lorebookName)
    ELSE UNCHANGED <<acl, links, userDirs, response>>

\* what a handler makes of the call: result.permitted, or the catch block
Outcome(apiOut) ==
    IF apiOut = "thrown" THEN "error"
    ELSE IF response'.permitted THEN "permitted" ELSE "denied"

\* the user opens a character whose world is the given lorebook
OpenCharacter ==
    \E lorebookName \in LinkNames \cup {UnknownName} :
        /\ program = "plugin"
        /\ world' = lorebookName
        /\ lastCall' = NoCall
        /\ aborted' = FALSE
        /\ UNCHANGED <<program, extVars, srvVars, logVars, raceVars, valVars, listVars>>

\* validateCurrentLorebook()
validateCurrentLorebook(requester, apiOut) ==
    IF world = NoWorld
    THEN UNCHANGED <<acl, links, userDirs, response, cliVars>>
    ELSE /\ callAPI(requester, world, apiOut)
         /\ lastCall' = [handler |-> "validate", outcome |-> Outcome(apiOut)]
         /\ world' = IF Outcome(apiOut) = "denied" THEN NoWorld ELSE world
         /\ UNCHANGED aborted

\* globalThis.lorebookACLInterceptor(chat, contextSize, abort, type)
lorebookACLInterceptor(requester, apiOut) ==
    IF world = NoWorld
    THEN UNCHANGED <<acl, links, userDirs, response, cliVars>>
    ELSE /\ callAPI(requester, world, apiOut)
         /\ lastCall' = [handler |-> "interceptor", outcome |-> Outcome(apiOut)]
         /\ aborted' = (Outcome(apiOut) = "denied")
         /\ UNCHANGED world

\* CHAT_CHANGED or CHARACTER_MESSAGE_RENDERED in the session of a user
ChatChanged ==
    \E requester \in SrvUsers, apiOut \in ApiOutcomes :
        /\ program = "plugin"
        /\ validateCurrentLorebook(requester, apiOut)
        /\ UNCHANGED <<program, extVars, admins, logVars, raceVars, valVars, listVars>>

\* a generation starts in the session of a user
Generate ==
    \E requester \in SrvUsers, apiOut \in ApiOutcomes :
        /\ program = "plugin"
        /\ lorebookACLInterceptor(requester, apiOut)
        /\ UNCHANGED <<program, extVars, admins, logVars, raceVars, valVars, listVars>>

NextClient ==
    \/ OpenCharacter
    \/ ChatChanged
    \/ Generate
    \/ ShareSymlinkReq
    \/ GrantAccessReq

SpecClient == InitLinks /\ [][NextClient]_vars

(***************************************************************************)
(* The extension with reloads of the page                                  *)
(***************************************************************************)
\* the page is reloaded when no call is pending and localStorage holds the map
\* that is in memory: the script starts again with permissionData = {} and
\* awaits loadPermissionData
Restart ==
    /\ ExtFrame
    /\ ~loading
    /\ inflight = <<>>
    /\ permissionData = localPerms
    /\ permissionData' = EmptyPerms
    /\ loading' = TRUE
    /\ result' = "none"
    /\ UNCHANGED <<characters, adminUsers, adminOverrideEnabled, isAdmin,
                   inflight, serverPerms, localPerms>>

InitStore == program = "extension" /\ ExtInit /\ SrvIdle /\ Rest

NextStore ==
    \/ GrantCmd
    \/ RevokeCmd
    \/ LoadFromServer
    \/ LoadFromCache
    \/ SaveDone
    \/ Restart

SpecStore == InitStore /\ [][NextStore]_vars

(***************************************************************************)
(* The extension with its access log                                       *)
(***************************************************************************)
\* logs.splice(0, logs.length - 1000) when logs.length > 1000
KeepLast(logs, n) ==
    IF Len(logs) > n THEN SubSeq(logs, Len(logs) - n + 1, Len(logs)) ELSE logs

\* logAccessAttempt that puts the new entry in front of the others
logAccessAttemptUnshift(userId, characterId, hasAccess) ==
    LET logEntry == [timestamp |-> now,
                     userId |-> IF userId # NoUser THEN userId ELSE CurrentUser,
                     characterId |-> characterId,
                     hasAccess |-> hasAccess]
    IN /\ accessLogs' = KeepLast(<<logEntry>> \o accessLogs, LogCap)
       /\ now' = now + 1

\* logAccessAttempt that never removes an entry
logAccessAttemptNoTrim(userId, characterId, hasAccess) ==
    LET logEntry == [timestamp |-> now,
                     userId |-> IF userId # NoUser THEN userId ELSE CurrentUser,
                     characterId |-> characterId,
                     hasAccess |-> hasAccess]
    IN /\ accessLogs' = Append(accessLogs, logEntry)
       /\ now' = now + 1

\* logAccessAttempt(data, hasAccess)
logAccessAttempt(userId, characterId, hasAccess) ==
    LET logEntry == [timestamp |-> now,
                     userId |-> IF userId # NoUser THEN userId ELSE CurrentUser,
                     characterId |-> characterId,
                     hasAccess |-> hasAccess]
    IN /\ accessLogs' = KeepLast(Append(accessLogs, logEntry), LogCap)
       /\ now' = now + 1

\* handleLorebookAccess(data) with data = {characterId, userId}
handleLorebookAccess(characterId, userId) ==
    LET hasAccess == verifyLorebookAccess(characterId, userId)
    IN IF ~enforcePermissions
       THEN UNCHANGED <<result, accessLogs, now>>
       ELSE /\ result' = IF hasAccess THEN "loaded" ELSE "blocked"
            /\ IF logAccessAttempts
               THEN logAccessAttempt(userId, characterId, hasAccess)
               ELSE UNCHANGED <<accessLogs, now>>

\* the event LOREBOOK_LOADED
LorebookLoaded ==
    \E id \in Keys, u \in GrantTargets \cup {NoUser} :
        /\ program = "extension"
        /\ now < MaxTime
        /\ handleLorebookAccess(id, u)
        /\ UNCHANGED <<characters, adminUsers, adminOverrideEnabled, isAdmin,
                       permissionData, loading, inflight, serverPerms, localPerms>>
        /\ UNCHANGED <<enforcePermissions, logAccessAttempts>>
        /\ UNCHANGED <<program, srvVars, cliVars, raceVars, valVars, listVars>>

\* handleCharacterChanged(data): checkCharacterPermissions sets the status text
CharacterChanged ==
    \E id \in Keys :
        /\ ExtFrame
        /\ result' = IF verifyLorebookAccess(id, CurrentUser) THEN "accessible"
                      ELSE "restricted"
        /\ UNCHANGED <<characters, adminUsers, adminOverrideEnabled, isAdmin,
                       permissionData, loading, inflight, serverPerms, localPerms>>

\* handleSettingsUpdated(data) after the host changed one of the two settings
LogSettingsUpdated ==
    \E enforce \in BOOLEAN, log \in BOOLEAN :
        /\ program = "extension"
        /\ <<enforce, log>> # <<enforcePermissions, logAccessAttempts>>
        /\ enforcePermissions' = enforce
        /\ logAccessAttempts' = log
        /\ UNCHANGED <<program, extVars, srvVars, cliVars, raceVars, valVars, listVars, accessLogs, now>>

InitAudit == program = "extension" /\ ExtInit /\ SrvIdle /\ Rest

NextAudit ==
    \/ LorebookLoaded
    \/ CharacterChanged
    \/ CheckCmd
    \/ LogSettingsUpdated
    \/ LoadFromServer

SpecAudit == InitAudit /\ [][NextAudit]_vars

(***************************************************************************)
(* Concurrent calls of createSymlink for one link path, await by await     *)
(***************************************************************************)
\* the link path of the calls and the target they link it to
RaceUser == "bob"
RaceName == "R1"
RaceTarget == "lore.json"

\* what is at linkPath
AtLinkPath == links[RaceUser, RaceName]

\* a step of a call changes the directory entry at most
RaceFrame ==
    /\ program = "plugin"
    /\ userDirs' = userDirs
    /\ UNCHANGED <<program, extVars, acl, admins, response, cliVars, logVars, valVars, listVars>>

\* createSymlink(target, linkPath) is called, or called again after it threw
CallCreateSymlink(c) ==
    /\ pc[c] \in {"idle", "failed"}
    /\ pc' = [pc EXCEPT ![c] = "lstat"]
    /\ seen' = [seen EXCEPT ![c] = "none"]
    /\ UNCHANGED links
    /\ RaceFrame

\* await fs.lstat(linkPath): ENOENT is caught, a symbolic link is to be unlinked
Lstat(c) ==
    /\ pc[c] = "lstat"
    /\ seen' = [seen EXCEPT ![c] = IF AtLinkPath = "none" THEN "ENOENT" ELSE "link"]
    /\ pc' = [pc EXCEPT ![c] = IF AtLinkPath = "none" THEN "symlink" ELSE "unlink"]
    /\ UNCHANGED links
    /\ RaceFrame

\* fs.unlink whose ENOENT is thrown to the caller
UnlinkThrowsEnoent(c) ==
    /\ pc[c] = "unlink"
    /\ seen' = [seen EXCEPT ![c] = IF AtLinkPath = "none" THEN "ENOENT" ELSE "link"]
    /\ links' = [links EXCEPT ![RaceUser, RaceName] = "none"]
    /\ pc' = [pc EXCEPT ![c] = IF AtLinkPath = "none" THEN "failed" ELSE "symlink"]
    /\ RaceFrame

\* await fs.unlink(linkPath): ENOENT, thrown when the link is gone, is caught
Unlink(c) ==
    /\ pc[c] = "unlink"
    /\ seen' = [seen EXCEPT ![c] = IF AtLinkPath = "none" THEN "ENOENT" ELSE "link"]
    /\ links' = [links EXCEPT ![RaceUser, RaceName] = "none"]
    /\ pc' = [pc EXCEPT ![c] = "symlink"]
    /\ RaceFrame

\* await fs.symlink(target, linkPath, 'file'): EEXIST is thrown to the caller
Symlink(c) ==
    /\ pc[c] = "symlink"
    /\ IF AtLinkPath = "none"
       THEN /\ links' = [links EXCEPT ![RaceUser, RaceName] = RaceTarget]
            /\ pc' = [pc EXCEPT ![c] = "done"]
            /\ UNCHANGED seen
       ELSE /\ pc' = [pc EXCEPT ![c] = "failed"]
            /\ seen' = [seen EXCEPT ![c] = "EEXIST"]
            /\ UNCHANGED links
    /\ RaceFrame

CallStep == \E c \in Callers : CallCreateSymlink(c)
LstatStep == \E c \in Callers : Lstat(c)
UnlinkStep == \E c \in Callers : Unlink(c)
SymlinkStep == \E c \in Callers : Symlink(c)

\* the link may be there already when the calls are made
InitRace ==
    /\ program = "plugin"
    /\ ExtIdle /\ CliIdle /\ LogIdle /\ RaceIdle /\ ValIdle /\ ListIdle
    /\ acl = [n \in LinkNames |-> NoAcl]
    /\ admins = {"root"}
    /\ \E at \in {"none", RaceTarget} :
         links = [p \in TargetUsers \X LinkNames |->
                     IF p = <<RaceUser, RaceName>> THEN at ELSE "none"]
    /\ userDirs = {RaceUser}
    /\ response = NoResponse

NextRace ==
    \/ CallStep
    \/ LstatStep
    \/ UnlinkStep
    \/ SymlinkStep

SpecRace == InitRace /\ [][NextRace]_vars

(***************************************************************************)
(* The documented validators of links, applied to the link paths           *)
(***************************************************************************)
\* what a link path can hold: nothing, a regular file, or a link to the path
\* of one of the lorebook names
PathContents == {"none", "file"} \cup TargetLorebooks

\* fs.readlink(symlinkPath) of a link made for the lorebook name
ReadLink(at) == SharedLorebook(at)

\* SymlinkManager.validateSymlink(symlinkPath)
validateSymlink(user, name) ==
    LET at == links[user, name]
        target == ReadLink(at)
        targetExists == target \in DataFiles
    IN IF at = "none"
       THEN [by |-> "SymlinkManager", user |-> user, name |-> name, thrown |-> FALSE, valid |-> FALSE,
             reason |-> "ENOENT", target |-> NoTarget]
       ELSE IF at = "file"
       THEN [by |-> "SymlinkManager", user |-> user, name |-> name, thrown |-> FALSE, valid |-> FALSE,
             reason |-> "Not a symbolic link", target |-> NoTarget]
       ELSE [by |-> "SymlinkManager", user |-> user, name |-> name, thrown |-> FALSE, valid |-> targetExists,
             reason |-> "none", target |-> target]

\* config.originalLorebookPath of SymlinkSecurityValidator: the storage root
AllowedPaths == {SharedWorldsDir}

\* SymlinkSecurityValidator.isPathAllowed(targetPath)
isPathAllowed(targetPath) == \E allowed \in AllowedPaths : Inside(allowed, targetPath)

\* SymlinkSecurityValidator.validateSymlink(symlinkPath): a record with thrown
\* TRUE is the error the call throws
validateSymlinkSecure(user, name) ==
    LET at == links[user, name]
        resolvedTarget == ReadLink(at)
        throw(message) == [by |-> "SymlinkSecurityValidator", user |-> user,
                           name |-> name, thrown |-> TRUE, valid |-> FALSE,
                           reason |-> message, target |-> NoTarget]
    IN IF at = "none" THEN throw("ENOENT")
       ELSE IF at = "file" THEN throw("Path is not a symbolic link")
       ELSE IF ~isPathAllowed(resolvedTarget)
       THEN throw("Symlink target outside allowed paths")
       ELSE IF resolvedTarget \notin DataFiles THEN throw("ENOENT")
       ELSE [by |-> "SymlinkSecurityValidator", user |-> user, name |-> name,
             thrown |-> FALSE, valid |-> TRUE, reason |-> "none",
             target |-> resolvedTarget]

\* a link path is written outside the plugin: a link is made or redirected by
\* hand, a file is put there, or the entry is removed
HostWritesPath ==
    \E user \in TargetUsers, name \in LinkNames, at \in PathContents :
        /\ program = "plugin"
        /\ links[user, name] # at
        /\ links' = [links EXCEPT ![user, name] = at]
        /\ validation' = NoValidation
        /\ UNCHANGED <<acl, admins, userDirs, response>>
        /\ UNCHANGED <<program, extVars, cliVars, logVars, raceVars, listVars>>

\* SymlinkManager.validateSymlink is called for a link path
ManagerValidates ==
    \E user \in TargetUsers, name \in LinkNames :
        /\ program = "plugin"
        /\ validation' = validateSymlink(user, name)
        /\ UNCHANGED <<program, extVars, srvVars, cliVars, logVars, raceVars, listVars>>

\* SymlinkSecurityValidator.validateSymlink is called for a link path
ValidatorValidates ==
    \E user \in TargetUsers, name \in LinkNames :
        /\ program = "plugin"
        /\ validation' = validateSymlinkSecure(user, name)
        /\ UNCHANGED <<program, extVars, srvVars, cliVars, logVars, raceVars, listVars>>

NextValidate ==
    \/ HostWritesPath
    \/ ManagerValidates
    \/ ValidatorValidates

SpecValidate == InitLinks /\ [][NextValidate]_vars

(***************************************************************************)
(* The callers of the access check in the extension, plugin and client     *)
(***************************************************************************)
NextChecks ==
    \/ VerifyCall
    \/ CheckCmd
    \/ CharacterChanged
    \/ LoadFromServer
    \/ CheckAccessReq
    \/ ChatChanged
    \/ Generate
    \/ OpenCharacter
    \/ ShareSymlinkReq
    \/ GrantAccessReq

SpecChecks == Init /\ [][NextChecks]_vars

(***************************************************************************)
(* The ACL and its listing: the requests that write the ACL, the host's    *)
(* administrator role, and list-acl.                                       *)
(***************************************************************************)
\* request bodies that register either name for bob
RegisterBodies ==
    [targetLorebook : {"lore.json"}, linkName : LinkNames, targetUser : LinkUsers]

\* create-symlink requests that register a name, or fail at fs.symlink
RegisterSymlinkReq ==
    \E requester \in SrvUsers, body \in RegisterBodies :
        \E fsOut \in IF ReachesFs(requester, body.targetLorebook, body.linkName,
                                   body.targetUser)
                      THEN {"ok", "symlink-fails"} ELSE {"ok"} :
            CreateSymlinkCall(requester, body, fsOut)

NextList ==
    \/ RegisterSymlinkReq
    \/ GrantAccessReq
    \/ HostSetsAdmins
    \/ ListAclReq

SpecList == InitLinks /\ [][NextList]_vars

(***************************************************************************)
(* Vocabulary of the properties                                            *)
(***************************************************************************)
\* the identifier under which a character's permissions are kept and checked:
\* its character_id, else its name
ResourceIds ==
    {ActualId(characters[i], characters[i].name) : i \in 1..Len(characters)}

\* the character a resource identifier stands for
CharacterOf(r) ==
    FindChar({i \in 1..Len(characters) :
                 ActualId(characters[i], characters[i].name) = r})

\* the owners of a resource: the creator and the owner recorded by the extension
OwnersOf(r) == {CharacterOf(r).creator, CharacterOf(r).owner} \ {NoUser}

\* the allow-list of a resource
AllowList(r) == EntryOf(permissionData, r).allowedUsers

\* the subjects of verifyLorebookAccess: a user id, or none (the session user)
Subjects == Users \cup {NoUser}

\* number of positions of a list that hold x
Count(list, x) == Cardinality({i \in 1..Len(list) : list[i] = x})

\* what the grant and revoke commands return
ManageResults ==
    {"admin-required", "not-found", "granted", "already-granted", "revoked", "not-granted"}

\* the registered names of the plugin
Registered == {n \in LinkNames : acl[n].present}

\* the plugin's decision for a user, with the isAdmin flag the host gives the user
PluginAccess(n, u) == checkLorebookPermission(n, u, IsAdminReq(u))

(***************************************************************************)
(* C1                                                                      *)
(***************************************************************************)
\* C1: for every registered resource and every user of the administrator set
\* the access check allows, whoever owns the resource and whatever its
\* allow-list holds, in the extension (while the administrator rule is switched
\* on by adminOverrideEnabled) and in the plugin.
C1_AdminAlwaysAllowed ==
    /\ program = "extension" =>
         (adminOverrideEnabled =>
              \A r \in ResourceIds, a \in Users :
                  verifyAdminStatus(a) => verifyLorebookAccess(r, a))
    /\ program = "plugin" =>
         \A n \in Registered, a \in admins : PluginAccess(n, a)

(***************************************************************************)
(* C2                                                                      *)
(***************************************************************************)
\* C2: for every registered resource the access check allows its owner,
\* whatever the allow-list and the administrator set are.
C2_OwnerAlwaysAllowed ==
    /\ program = "extension" =>
         \A r \in ResourceIds : \A o \in OwnersOf(r) : verifyLorebookAccess(r, o)
    /\ program = "plugin" =>
         \A n \in Registered : PluginAccess(n, acl[n].creator)

(***************************************************************************)
(* C3                                                                      *)
(***************************************************************************)
\* C3: a user who is not the owner of a registered resource, not an
\* administrator and not in its allow-list is denied, in every state reached
\* by grants and revokes.
C3_OthersDenied ==
    /\ program = "extension" =>
         \A r \in ResourceIds, u \in Users :
             (/\ ~verifyAdminStatus(u)
              /\ u \notin OwnersOf(r)
              /\ ~Includes(AllowList(r), u)) => ~verifyLorebookAccess(r, u)
    /\ program = "plugin" =>
         \A n \in Registered, u \in SrvUsers \cup {DefaultUser} :
             (/\ u \notin admins
              /\ acl[n].creator # u
              /\ ~Includes(acl[n].allowedUsers, u)) => ~PluginAccess(n, u)

(***************************************************************************)
(* C4                                                                      *)
(***************************************************************************)
\* the access check allows every user of a resource's allow-list
C4_MemberMayRead ==
    /\ program = "extension" =>
         \A r \in ResourceIds, u \in Users :
             Includes(AllowList(r), u) => verifyLorebookAccess(r, u)
    /\ program = "plugin" =>
         \A n \in Registered, u \in SrvUsers :
             Includes(acl[n].allowedUsers, u) => PluginAccess(n, u)

\* the managing operations refuse a user who is only in the allow-list
C4_MemberMayNotManage ==
    /\ (program = "extension" /\ ~isAdmin /\ result' \in ManageResults
           /\ (GrantCmd \/ RevokeCmd)) =>
          /\ result' = "admin-required"
          /\ permissionData' = permissionData
    /\ (program = "plugin" /\ response'.route = "grant-access") =>
          \A q \in SrvUsers \ admins, n \in Registered, t \in TargetUsers :
              (/\ Includes(acl[n].allowedUsers, q)
               /\ acl[n].creator # q
               /\ GrantAccessCall(q, n, t)) => (response'.status = 403 /\ acl' = acl)

C5_UnknownNeverAllowed ==
    /\ program = "extension" =>
         \A id \in Ids, u \in Subjects :
             (getCharacterById(id) = NoChar /\ ~EntryOf(permissionData, id).present)
                 => ~verifyLorebookAccess(id, u)
    /\ program = "plugin" =>
         \A n \in (LinkNames \cup {UnknownName}) \ Registered,
            u \in SrvUsers \cup {DefaultUser} : ~PluginAccess(n, u)

(***************************************************************************)
(* C6                                                                      *)
(***************************************************************************)
\* the key under which grant and revoke keep the allow-list of an identifier
KeyOf(id) == ActualId(getCharacterByNameOrId(id), id)

\* the allow-list of a key after the step
AllowListAfter(r) == EntryOf(permissionData', r).allowedUsers

\* the session user passes the gate of grant and revoke for the key r: as an
\* administrator, or (when owners count) as an owner of the character
Gate(ownersToo, r) == isAdmin \/ (ownersToo /\ CurrentUser \in OwnersOf(r))

\* grant and revoke of the extension take effect exactly when the gate holds
\* for the key r of the character; grant-access of the plugin takes effect
\* exactly when the requester is an administrator or the creator of the entry.
\* Each line reads: the step has the stated effect, or it is not that call.
ManageGate(ownersToo) ==
    /\ (program = "extension" /\ result' \in ManageResults) =>
         \A u \in GrantTargets, id \in Ids :
             getCharacterByNameOrId(id) # NoChar =>
                 /\ \/ IF Gate(ownersToo, KeyOf(id)) THEN Includes(AllowListAfter(KeyOf(id)), u)
                       ELSE permissionData' = permissionData
                    \/ ~GrantCall(u, id)
                 /\ \/ IF Gate(ownersToo, KeyOf(id)) THEN ~Includes(AllowListAfter(KeyOf(id)), u)
                       ELSE permissionData' = permissionData
                    \/ ~RevokeCall(u, id)
    /\ (program = "plugin" /\ response'.route = "grant-access") =>
         \A q \in SrvUsers \cup {NoUser}, n \in Registered, t \in TargetUsers :
             \/ IF IsAdminReq(q) \/ acl[n].creator = UserHandle(q)
                THEN Includes(acl'[n].allowedUsers, t)
                ELSE acl' = acl
             \/ ~GrantAccessCall(q, n, t)

C7_SecondCallIsNoOp ==
    /\ (program = "extension" /\ isAdmin /\ result' \in ManageResults) =>
         \A u \in GrantTargets, id \in Ids :
             getCharacterByNameOrId(id) # NoChar =>
                 /\ GrantCall(u, id) =>
                        /\ Count(AllowListAfter(KeyOf(id)), u) = 1
                        /\ Includes(AllowList(KeyOf(id)), u) =>
                               /\ AllowListAfter(KeyOf(id)) = AllowList(KeyOf(id))
                               /\ inflight' = inflight
                               /\ result' = "already-granted"
                 /\ RevokeCall(u, id) =>
                        /\ Count(AllowListAfter(KeyOf(id)), u) = 0
                        /\ ~Includes(AllowList(KeyOf(id)), u) =>
                               /\ permissionData' = permissionData
                               /\ inflight' = inflight
                               /\ result' = "not-granted"
    /\ (program = "plugin" /\ response'.route = "grant-access") =>
         \A q \in SrvUsers \cup {NoUser}, n \in Registered, t \in TargetUsers :
             (/\ IsAdminReq(q) \/ acl[n].creator = UserHandle(q)
              /\ GrantAccessCall(q, n, t)) =>
                 /\ Count(acl'[n].allowedUsers, t) = 1
                 /\ response'.status = 200
                 /\ Includes(acl[n].allowedUsers, t) => acl' = acl

\* C7: grant and revoke are idempotent: repeated by an authorized actor, the
\* second call is a no-op that is not an error and the allow-list is the one
\* the first call left, with the user in it once (grant) or not at all (revoke).
C7_Idempotent == [][C7_SecondCallIsNoOp]_vars

\* an administrator has repeated a grant: bob is once in the allow-list of c1
\* and the command answered that the user already has permission
C7_Witness ==
    /\ program = "extension"
    /\ result = "already-granted"
    /\ Count(AllowList("c1"), "bob") = 1

(***************************************************************************)
(* C8                                                                      *)
(***************************************************************************)
\* C8: after a grant and then a revoke by an administrator for a user who is
\* neither the owner of the resource nor an administrator, the access check
\* denies that user.
C8_GrantRevokeDenies ==
    (program = "extension" /\ result = "revoked") =>
        \A r \in ResourceIds, u \in GrantTargets :
            (/\ u \notin OwnersOf(r)
             /\ ~verifyAdminStatus(u)
             /\ ~Includes(AllowList(r), u)) => ~verifyLorebookAccess(r, u)

(***************************************************************************)
(* C9                                                                      *)
(***************************************************************************)
\* the step of the trace at which bob, whom the access check allows for R1,
\* asks for a link to R1 in his own directory
C9_CreateLinkStep ==
    (program = "plugin" /\ response'.route = "create-symlink"
        /\ admins = {"root"} /\ acl["R1"].present) =>
        \A body \in CreateBodies :
            (/\ acl["R1"].creator = "alice"
             /\ Includes(acl["R1"].allowedUsers, "bob")
             /\ PluginAccess("R1", "bob")
             /\ body.linkName = "R1"
             /\ body.targetUser = "bob"
             /\ body.targetLorebook \in SharedFiles
             /\ CreateSymlinkCall("bob", body, "ok")) =>
                 /\ response'.status = 200
                 /\ links'["bob", "R1"] = body.targetLorebook

\* C9: with R1 owned by alice and the administrator set {root}, once alice has
\* granted bob access and the access check allows bob, createLink(bob, R1)
\* succeeds with a link under bob's directory that resolves to R1's file (the
\* fourth step of the end-to-end trace).
C9_EndToEndTrace == [][C9_CreateLinkStep]_vars

(***************************************************************************)
(* C10                                                                     *)
(***************************************************************************)
\* the requesters whom the access check denies for a registered name
DeniedFor(n) ==
    {q \in SrvUsers \cup {NoUser} :
        ~checkLorebookPermission(n, UserHandle(q), IsAdminReq(q))}

\* the step is the answer 403 and changes neither links, directories nor ACL
RefusedUnchanged ==
    /\ response'.status = 403
    /\ links' = links
    /\ userDirs' = userDirs
    /\ acl' = acl

\* a create-symlink request of a requester whom the access check denies for
\* the link name is answered 403 and changes nothing: a step that is anything
\* else is the request of no such requester
C10_DeniedCreateChangesNothing ==
    (program = "plugin" /\ response'.route = "create-symlink" /\ ~RefusedUnchanged) =>
        \A n \in Registered :
            \A q \in DeniedFor(n), t \in TargetLorebooks, tu \in LinkUsers :
                \A fsOut \in IF ReachesFs(q, t, n, tu) THEN FsOutcomes ELSE {"ok"} :
                    ~CreateSymlinkCall(q, [targetLorebook |-> t, linkName |-> n,
                                           targetUser |-> tu], fsOut)

C11_TargetsInsideRoot ==
    program = "plugin" =>
        \A p \in TargetUsers \X LinkNames :
            links[p] \in TargetLorebooks => Inside(SharedWorldsDir, SharedLorebook(links[p]))

(***************************************************************************)
(* C12                                                                     *)
(***************************************************************************)
\* C12: a link exists in a user's directory only for a pair (user, name) that
\* the access check allows: no link is left behind for a user whose access to
\* the name has ended.
C12_LinksOnlyForAllowed ==
    program = "plugin" =>
        \A u \in TargetUsers, n \in LinkNames :
            links[u, n] \in TargetLorebooks => PluginAccess(n, u)

\* C13: when the access decision cannot be reached, the outcome is deny: after
\* a check-access call that failed, the generation interceptor has aborted the
\* generation and the validation has taken the lorebook off the character.
C13_ErrorMeansDeny ==
    lastCall.outcome = "error" =>
        /\ lastCall.handler = "interceptor" => aborted
        /\ lastCall.handler = "validate" => world = NoWorld

(***************************************************************************)
(* C14                                                                     *)
(***************************************************************************)
\* C14: the response to a subject whose access is denied is the one a check of
\* a name without ACL entry would carry: it reveals the outcome only, no ACL
\* entry with its creator and its allow-list.
C14_DeniedRevealsOnlyOutcome ==
    (program = "plugin" /\ response.route = "check-access" /\ ~response.permitted) =>
        response.acl = NoAcl

(***************************************************************************)
(* C15                                                                     *)
(***************************************************************************)
\* the messages of the errors thrown by the file system calls
FsMessages ==
    {"mkdir-fails", "lstat-fails", "unlink-fails", "symlink-fails", EpermMessage}

\* fs.mkdir or one of the calls of createSymlink throws during the request
FsFails(targetLorebook, linkName, targetUser, fsOut) ==
    \/ fsOut = "mkdir-fails"
    \/ ~createSymlink(targetLorebook, targetUser, linkName, fsOut).ok

\* the step is the answer 500 with the message of the file system error, and
\* registers nothing in the ACL
ReportedFailure ==
    /\ response'.status = 500
    /\ response'.error \in FsMessages
    /\ acl' = acl

\* a create-symlink request that passed the authorization (an administrator
\* asks for a lorebook that exists) and whose file system call failed is
\* answered as a reported failure: a step that is anything else is no such
\* request
C15_FailedCreateIsReported ==
    (program = "plugin" /\ response'.route = "create-symlink" /\ ~ReportedFailure) =>
        \A q \in admins, t \in SharedFiles, n \in LinkNames, tu \in LinkUsers :
            \A fsOut \in {o \in FsOutcomes : FsFails(t, n, tu, o)} :
                ~CreateSymlinkCall(q, [targetLorebook |-> t, linkName |-> n,
                                       targetUser |-> tu], fsOut)

\* C15: when the requester was authorized and the link creation then fails in
\* the file system, create-symlink reports the failure with its cause (status
\* 500, the message of the error), which differs from the authorization
\* denial (status 403); it answers neither success nor denial, and registers
\* no ACL entry.
C15_FsFailureReported == [][C15_FailedCreateIsReported]_vars

\* an authorized create-symlink request failed at fs.symlink before any entry
\* was registered
C15_Witness ==
    /\ program = "plugin"
    /\ response.route = "create-symlink"
    /\ response.status = 500
    /\ response.error \in {"symlink-fails", EpermMessage}
    /\ \A n \in LinkNames : ~acl[n].present

(***************************************************************************)
(* C16                                                                     *)
(***************************************************************************)
\* C16: no update is lost when the calls interleave with the load and the save
\* of the permission data: once the load and every save have completed and the
\* last command was a grant that answered 'granted', the user it added is on
\* an allow-list in memory, as after every serial application of the calls.
C16_NoUpdateLost ==
    (program = "extension" /\ result = "granted" /\ ~loading /\ inflight = <<>>) =>
        \E id \in Keys, u \in GrantTargets : Includes(permissionData[id].allowedUsers, u)

(***************************************************************************)
(* C17                                                                     *)
(***************************************************************************)
\* every call that was made has returned or thrown
AllReturned ==
    /\ \A c \in Callers : pc[c] \in {"idle", "done", "failed"}
    /\ \E c \in Callers : pc[c] # "idle"

\* an unlink that finds the link removed by the other call goes on to symlink
UnlinkOfRemovedSucceeds ==
    \A c \in Callers :
        (pc[c] = "unlink" /\ AtLinkPath = "none" /\ pc'[c] # pc[c]) =>
            (pc'[c] = "symlink" /\ seen'[c] = "ENOENT")

\* C17: for every interleaving of the calls of createSymlink for one link path
\* at their lstat, unlink and symlink steps, removing a link that the other
\* call has removed is a success, and when the calls have returned or thrown,
\* also after a retry of those that threw, the path holds the link.
C17_RaceEndsWithLink ==
    /\ [](AllReturned => AtLinkPath = RaceTarget)
    /\ [][UnlinkOfRemovedSucceeds]_vars

\* both calls found the link, one was late at unlink and at symlink: its
\* unlink met ENOENT, its symlink threw EEXIST, and the other call returned
C17_Witness ==
    /\ \E c \in Callers : pc[c] = "failed" /\ seen[c] = "EEXIST"
    /\ \E c \in Callers : pc[c] = "done"
    /\ AllReturned

(***************************************************************************)
(* C18                                                                     *)
(***************************************************************************)
\* C18: the mapping is durable across restarts: when the page has been
\* reloaded after the calls returned and the permission data are loaded again,
\* the mapping in memory is the one that was there before the reload (the one
\* localStorage holds), also when a save to the server had failed.
C18_ReloadRestoresMapping ==
    (program = "extension" /\ result = "none" /\ ~loading) =>
        permissionData = localPerms

(***************************************************************************)
(* C19                                                                     *)
(***************************************************************************)
\* the step is a handler or command that calls verifyLorebookAccess
CheckAccessCalled ==
    \/ CheckCmd /\ result' # "not-found"
    \/ CharacterChanged
    \/ LorebookLoaded /\ enforcePermissions

\* the newest entry of the log was written by this step
OneEventAdded ==
    /\ now' = now + 1
    /\ Len(accessLogs') > 0
    /\ accessLogs'[Len(accessLogs')].timestamp = now

\* C19: every call of the access check adds exactly one event to the audit
\* log, whatever its outcome and whichever path invokes it: the lorebook-load
\* event, the character change, the slash command 'check'.
C19_EveryCheckAddsOneEvent == [][CheckAccessCalled => OneEventAdded]_vars

(***************************************************************************)
(* C20                                                                     *)
(***************************************************************************)
IsPrefix(s, t) == Len(s) <= Len(t) /\ SubSeq(t, 1, Len(s)) = s

Front(s) == SubSeq(s, 1, Len(s) - 1)

\* the log as it was is a prefix of the log after every step
C20_AppendOnly == [][IsPrefix(accessLogs, accessLogs')]_vars

\* the step adds one entry at the end, and drops the oldest entry when the log
\* was full
AppendedUpToCap ==
    /\ Len(accessLogs') > 0
    /\ Front(accessLogs') = IF Len(accessLogs) < LogCap THEN accessLogs
                            ELSE Tail(accessLogs)

\* C20: an entry once written is never changed or reordered and new entries
\* are added at the end only; while the log holds fewer entries than its cap,
\* the earlier log is a prefix of the later one, and once it is full each new
\* entry drops the oldest one.
C20_AppendOnlyUpToCap == [][accessLogs' = accessLogs \/ AppendedUpToCap]_vars

\* the log is full and its oldest entry has been dropped
C20_Witness ==
    /\ Len(accessLogs) = LogCap
    /\ accessLogs[1].timestamp > 0
    /\ accessLogs[LogCap].timestamp = accessLogs[1].timestamp + LogCap - 1

(***************************************************************************)
(* C21                                                                     *)
(***************************************************************************)
\* the creator of every registered ACL entry is the same after the step
CreatorsKept ==
    \A n \in LinkNames :
        acl[n].present => (acl'[n].present /\ acl'[n].creator = acl[n].creator)

\* the owner of every permission record is the same after a step that is not
\* the load of the permission data
OwnersKept ==
    \A k \in Keys :
        permissionData[k].present =>
            (permissionData'[k].present /\ permissionData'[k].owner = permissionData[k].owner)

\* C21: once a resource is registered its owner never changes: no grant,
\* revoke, create-symlink or check-access call alters the creator of an ACL
\* entry or the owner of a permission record that exists.
C21_OwnerNeverChanges ==
    [][/\ program = "plugin" => CreatorsKept
       /\ (program = "extension" /\ ~loading) => OwnersKept]_vars

(***************************************************************************)
(* C22                                                                     *)
(***************************************************************************)
\* the user enters the allow-list of the ACL entry n with the step
EntersAcl(n, u) ==
    /\ Includes(acl'[n].allowedUsers, u)
    /\ ~Includes(acl[n].allowedUsers, u)

\* the user enters the allow-list of the permission record k with the step
EntersRecord(k, u) ==
    /\ Includes(permissionData'[k].allowedUsers, u)
    /\ ~Includes(permissionData[k].allowedUsers, u)

\* the step is a request that names u as the target user for the name n
NamedInRequest(n, u) ==
    /\ u \in TargetUsers
    /\ \/ \E q \in SrvUsers \cup {NoUser} : GrantAccessCall(q, n, u)
       \/ \E q \in admins, t \in SharedFiles, fsOut \in FsOutcomes :
              CreateSymlinkCall(q, [targetLorebook |-> t, linkName |-> n,
                                    targetUser |-> u], fsOut)

\* the step is a grant command that names u for the record k
NamedInCommand(k, u) == \E id \in Ids : KeyOf(id) = k /\ GrantCall(u, id)

\* the creator or owner of a record and the administrators enter its
\* allow-list only by a request or command that names them as the target
C22_OnlyNamedEnter ==
    /\ program = "plugin" =>
          \A n \in LinkNames, u \in SrvUsers \cup {DefaultUser} :
              (EntersAcl(n, u) /\ (u = acl'[n].creator \/ u \in admins)) =>
                  NamedInRequest(n, u)
    /\ (program = "extension" /\ ~loading) =>
          \A k \in Keys, u \in Users :
              (EntersRecord(k, u) /\ (u = permissionData'[k].owner \/ verifyAdminStatus(u))) =>
                  NamedInCommand(k, u)

\* C22: the allow-list of a resource never implicitly includes its owner or
\* the administrators: they become members only by a grant (or the
\* create-symlink request) that names them as the target user.
C22_NoImplicitMembers == [][C22_OnlyNamedEnter]_vars

\* the creator of an entry, an administrator, is on its allow-list after a
\* grant that named them
C22_Witness ==
    /\ program = "plugin"
    /\ response.route = "grant-access"
    /\ response.status = 200
    /\ \E n \in Registered :
          /\ acl[n].creator \in admins
          /\ Includes(acl[n].allowedUsers, acl[n].creator)

(***************************************************************************)
(* C23                                                                     *)
(***************************************************************************)
\* what is at the path that was validated last
ValidatedAt == links[validation.user, validation.name]

\* C23: validating a link path succeeds, with the resolved target, only when
\* the path is a link whose target exists inside the storage root; for a
\* regular file it tells that the path is no link; for a link whose target is
\* gone it returns a refusal and does not throw; for a link whose target is
\* outside the root it refuses.
C23_ValidateLink ==
    validation.by # "none" =>
        /\ validation.valid =>
              /\ ValidatedAt \in TargetLorebooks
              /\ validation.target = ReadLink(ValidatedAt)
              /\ validation.target \in DataFiles
              /\ Inside(SharedWorldsDir, validation.target)
        /\ ValidatedAt = "file" =>
              validation.reason \in {"Not a symbolic link", "Path is not a symbolic link"}
        /\ (ValidatedAt \in TargetLorebooks /\ ReadLink(ValidatedAt) \notin DataFiles) =>
              (~validation.valid /\ ~validation.thrown)
        /\ (ValidatedAt \in TargetLorebooks
              /\ ~Inside(SharedWorldsDir, ReadLink(ValidatedAt))) =>
              ~validation.valid

(***************************************************************************)
(* C24                                                                     *)
(***************************************************************************)
\* the step answers 'Administrator access required' and leaves the permission
\* data and the pending saves as they were
RefusedAsNonAdmin ==
    /\ result' = "admin-required"
    /\ permissionData' = permissionData
    /\ inflight' = inflight

\* while the session user is no administrator, a step that is anything but
\* such a refusal is none of the commands grant, revoke and list
C24_NonAdminIsRefused ==
    (program = "extension" /\ ~isAdmin /\ ~RefusedAsNonAdmin) =>
        ~(GrantCmd \/ RevokeCmd \/ ListCmd)

IsCheck ==
    \/ VerifyCall
    \/ CheckCmd
    \/ CharacterChanged
    \/ CheckAccessReq
    \/ ChatChanged
    \/ Generate

\* resource records, owners, allow-lists and administrators are as before
RecordsKept ==
    /\ permissionData' = permissionData
    /\ characters' = characters
    /\ adminUsers' = adminUsers
    /\ isAdmin' = isAdmin
    /\ acl' = acl
    /\ admins' = admins
    /\ links' = links

\* no call of the access check changes the records, the administrators or the
\* lorebook reference of the character
C25_CheckChangesNothing == [][~(RecordsKept /\ world' = world) => ~IsCheck]_vars

\* a handler of the client changes the lorebook reference only as
\* validateCurrentLorebook after a denial, which sets it to null
ReferenceOnlyDropped ==
    (world' # world /\ lastCall'.handler # "none") =>
        /\ lastCall' = [handler |-> "validate", outcome |-> "denied"]
        /\ world' = NoWorld

\* C25: the access check itself changes nothing: verifyLorebookAccess and
\* check-access leave the records, owners, allow-lists and administrators as
\* they were, whether they allow or deny; validateCurrentLorebook, which
\* calls the check, sets the lorebook reference of the character to null when
\* the check denies, and no caller changes the reference otherwise.
C25_CheckKeepsRecords ==
    [][(~RecordsKept => ~IsCheck) /\ ReferenceOnlyDropped]_vars

\* validateCurrentLorebook met a denial for a registered name and took the
\* reference off the character, the entry being in place
C25_Witness ==
    /\ lastCall = [handler |-> "validate", outcome |-> "denied"]
    /\ world = NoWorld
    /\ response.route = "check-access"
    /\ ~response.permitted
    /\ response.acl.present
    /\ Registered # {}

(***************************************************************************)
(* C26                                                                     *)
(***************************************************************************)
\* the number of entries written so far that the log still holds
Kept == IF now < LogCap THEN now ELSE LogCap

\* C26: the stored access log never holds more entries than its cap: it
\* consists of the most recent entries, in the order in which they were
\* written, with the newest entry last.
C26_LogHoldsMostRecent ==
    /\ Len(accessLogs) <= LogCap
    /\ Len(accessLogs) = Kept
    /\ \A i \in 1 .. Len(accessLogs) : accessLogs[i].timestamp = now - Kept + i - 1

\* more entries were written than the cap, and the log holds the last ones
C26_Witness ==
    /\ now > LogCap
    /\ Len(accessLogs) = LogCap
    /\ accessLogs[LogCap].timestamp = now - 1

(***************************************************************************)
(* C27                                                                     *)
(***************************************************************************)
\* the ACL after create-symlink registered linkName for targetUser on behalf
\* of the requester: the entry of linkName is a new one, the others are kept
RegisteredFor(requester, linkName, targetUser) ==
    acl' = [acl EXCEPT ![linkName] = [creator |-> UserHandle(requester),
                                      allowedUsers |-> <<targetUser>>,
                                      present |-> TRUE]]

\* a create-symlink request that answers 200 registers its entry
C27_CreateReplacesEntry ==
    (program = "plugin" /\ response'.route = "create-symlink"
                        /\ response'.status = 200) =>
        \A q \in SrvUsers \cup {NoUser}, body \in CreateBodies :
            \A fsOut \in IF ReachesFs(q, body.targetLorebook, body.linkName,
                                       body.targetUser)
                          THEN FsOutcomes ELSE {"ok"} :
                (~RegisteredFor(q, body.linkName, body.targetUser) \/ q \notin admins)
                    => ~CreateSymlinkCall(q, body, fsOut)

\* C27: a successful create-symlink sets the ACL entry of linkName to creator =
\* the requesting administrator and allowedUsers = exactly [targetUser]; it
\* replaces an earlier entry of that name, so that the users granted before
\* are no longer on the allow-list.
C27_SuccessfulCreateResetsEntry == [][C27_CreateReplacesEntry]_vars

\* alice, as an administrator, created a link for bob under a name, and the
\* entry of the name holds her as creator and bob alone on the allow-list
C27_Witness ==
    /\ program = "plugin"
    /\ response.route = "create-symlink"
    /\ response.status = 200
    /\ \E n \in LinkNames :
          /\ acl[n] = [creator |-> "alice", allowedUsers |-> <<"bob">>,
                       present |-> TRUE]
          /\ links["bob", n] \in SharedFiles

(***************************************************************************)
(* C28                                                                     *)
(***************************************************************************)
\* the step is a create-symlink request that is answered 200 after the link
\* was made
CreatedLink(body) ==
    /\ response'.status = 200
    /\ body.targetUser # Missing /\ body.linkName # Missing
    /\ links'[body.targetUser, body.linkName] = body.targetLorebook

\* a create-symlink request that changes the ACL is one that made its link:
\* a request that fails leaves the ACL as it was
C28_FailedCreateKeepsAcl ==
    (program = "plugin" /\ response'.route = "create-symlink" /\ acl' # acl) =>
        \A q \in SrvUsers \cup {NoUser}, body \in CreateBodies :
            \A fsOut \in IF ReachesFs(q, body.targetLorebook, body.linkName,
                                       body.targetUser)
                          THEN FsOutcomes ELSE {"ok"} :
                (response'.status # 200 \/ ~CreatedLink(body))
                    => ~CreateSymlinkCall(q, body, fsOut)

\* C28: a create-symlink request that fails (400, 403, 404 or 500) leaves the
\* ACL unchanged; the ACL entry is written only after the symlink has been
\* created.
C28_AclWrittenOnlyOnSuccess == [][C28_FailedCreateKeepsAcl]_vars

\* the request to replace bob's link failed at fs.symlink after the old link
\* was removed, and the entry that root registered with the old link stands
C28_Witness ==
    /\ program = "plugin"
    /\ response.route = "create-symlink"
    /\ response.status = 500
    /\ \E n \in LinkNames :
          /\ acl[n].present
          /\ acl[n].creator = "root"
          /\ links["bob", n] = "none"

(***************************************************************************)
(* C29                                                                     *)
(***************************************************************************)
\* C29: the administrator rule of verifyLorebookAccess applies only while the
\* setting adminOverrideEnabled is true: with the setting false an
\* administrator is allowed for a resource exactly when they are its owner or
\* on its allow-list, like any other user.
C29_OverrideOnlyWhileEnabled ==
    (program = "extension" /\ ~adminOverrideEnabled) =>
        \A r \in ResourceIds, a \in Users :
            verifyAdminStatus(a) =>
                (verifyLorebookAccess(r, a)
                     <=> (a \in OwnersOf(r) \/ Includes(AllowList(r), a)))

\* with the setting false no administrator is allowed who is neither owner
\* nor on the allow-list, and the decision does not depend on the flag isAdmin
C29_NoOverrideWhenDisabled ==
    (program = "extension" /\ ~adminOverrideEnabled) =>
        \A r \in ResourceIds, a \in Users :
            /\ (verifyAdminStatus(a) /\ verifyLorebookAccess(r, a))
                   => (a \in OwnersOf(r) \/ Includes(AllowList(r), a))
            /\ verifyLorebookAccess(r, a)
                   = (isCharacterOwner(r, a) \/ hasExplicitPermission(r, a))

(***************************************************************************)
(* C30                                                                     *)
(***************************************************************************)
\* the registered names that a requester may see: the requester is an
\* administrator, the creator of the entry or on its allow-list
VisibleTo(requester) ==
    {n \in Registered : \/ requester \in admins
                         \/ acl[n].creator = UserHandle(requester)
                         \/ UserHandle(requester) \in
                                {acl[n].allowedUsers[i] : i \in 1..Len(acl[n].allowedUsers)}}

\* the names that the answer of list-acl holds
Disclosed == {n \in LinkNames : filteredAcl'.acl[n].present}

\* the answer of list-acl holds the visible entries, as they are stored, and
\* no other
ExactListing(requester) ==
    /\ Disclosed = VisibleTo(requester)
    /\ \A n \in Disclosed : filteredAcl'.acl[n] = acl[n]

\* a list-acl step answers its requester with the exact listing
C30_ListingIsExact ==
    (program = "plugin" /\ response'.route = "list-acl") =>
        \A q \in SrvUsers \cup {NoUser} :
            ~ExactListing(q) => ~ListAclCall(q)

\* C30: list-acl returns to a requester exactly the ACL entries of which the
\* requester is an administrator, the creator or a member of allowedUsers; no
\* entry outside that set is disclosed, in every state reached by
\* create-symlink and grant-access requests.
C30_ListAclDisclosesOnlyVisible == [][C30_ListingIsExact]_vars

\* alice, who is no administrator, listed the ACL while two names were
\* registered: the answer holds the one she was granted and not the other
C30_Witness ==
    /\ program = "plugin"
    /\ filteredAcl.asked
    /\ filteredAcl.to = "alice"
    /\ "alice" \notin admins
    /\ \E n, m \in Registered :
          /\ filteredAcl.acl[n] = acl[n]
          /\ Includes(acl[n].allowedUsers, "alice")
          /\ acl[m].creator # "alice"
          /\ ~Includes(acl[m].allowedUsers, "alice")
          /\ ~filteredAcl.acl[m].present

====
